---- MODULE Spec2Model ----
(***************************************************************************)
(* A model of the multi-vec crate (src/src/lib.rs, src/src/array.rs):       *)
(* MultiVec<N, T>, a dense rectangular array kept in one Vec<T> with        *)
(* precomputed offsets, the MultiVecRef<N, T> views that indexing hands     *)
(* out, and the Refs registry that owns every boxed view until the          *)
(* MultiVec is dropped.                                                     *)
(*                                                                         *)
(* Pointers are modelled by what they point at: a view's `refs` pointer is  *)
(* the id of the MultiVec it came from, its `slice` pointer is a            *)
(* (start, len) range of that MultiVec's `inner`, its `offsets` pointer is  *)
(* the number of leading entries of that MultiVec's `offsets` it skips.     *)
(* A Box is an address: a position in `heap`.  Element type T is an         *)
(* integer type (Default::default() = 0).                                   *)
(***************************************************************************)
EXTENDS Integers, Sequences, FiniteSets, TLC

\* ------------------------------------------------------------------ bounds
MaxN == 2
MaxDim == 2
MaxCells == 4
MaxViews == 3
MaxWrites == 1
MaxThreads == 2

\* ------------------------------------------------------------------ inputs
Ids == {"a", "b"}
Gens == {"coord", "sum"}
WriteVals == {0, 77}
Threads == 1..MaxThreads

\* mv[c]     the MultiVec c: its fields inner, offsets, refs (the Vec inside
\*           Refs), and st: absent (not built yet), alive or dropped
\* args[c]   what c was built from (outer_size, sizes, the generator) and how
\*           many elements were assigned since: bookkeeping the claims read
\* heap      every Box<MultiVecRef> ever allocated, by address
\* freed[p]  how many times Box::from_raw has reclaimed address p
\* last      the last call and its result
\* written   the coordinate tuples assigned so far while populating
\* pc, ptr, cur, tmp, mutex   the threads sharing &MultiVec: where each is in
\*           a view-producing call, the box it holds, the view it got last,
\*           the Vec it read inside push, and who holds the Mutex (0: nobody)
VARIABLES mv, args, heap, freed, last, written, pc, ptr, cur, tmp, mutex

vars == <<mv, args, heap, freed, last, written, pc, ptr, cur, tmp, mutex>>
thrVars == <<pc, ptr, cur, tmp, mutex>>

\* ------------------------------------------------------------- generators
RECURSIVE Sum(_)
Sum(s) == IF s = <<>> THEN 0 ELSE Head(s) + Sum(Tail(s))

RECURSIVE Digits(_, _)
Digits(acc, s) == IF s = <<>> THEN acc ELSE Digits(acc * 10 + Head(s), Tail(s))

\* The generator f(outer_index, inner_indices) handed to from_fn: "coord" is
\* the tests' |i, [j, k]| (i, j, k), the tuple written as a decimal number,
\* "sum" is a generator that is not injective, "default" is |_, _| Default::default().
Gen(g, first, indices) ==
    CASE g = "coord" -> Digits(first, indices)
      [] g = "sum" -> 1 + first + Sum(indices)
      [] OTHER -> 0

\* ---------------------------------------------------------------- from_fn
RECURSIVE reverse(_)
reverse(s) == IF s = <<>> THEN <<>> ELSE Append(reverse(Tail(s)), Head(s))

\* sizes.map(|n| { prod *= n; prod }) with prod starting at `prod`
RECURSIVE map_prod(_, _)
map_prod(prod, s) ==
    IF s = <<>> THEN <<>>
    ELSE <<prod * Head(s)>> \o map_prod(prod * Head(s), Tail(s))

OffsetsNoReverse(sizes) == map_prod(1, reverse(sizes))

compute_offsets(sizes) == reverse(map_prod(1, reverse(sizes)))

RECURSIVE prepend_each(_, _)
prepend_each(h, rows) ==
    IF rows = <<>> THEN <<>>
    ELSE <<(<<h>> \o Head(rows))>> \o prepend_each(h, Tail(rows))

RECURSIVE range_rows(_, _, _)
range_rows(h, n, rows) ==
    IF h >= n THEN <<>>
    ELSE prepend_each(h, rows) \o range_rows(h + 1, n, rows)

\* itertools' multi_cartesian_product over the ranges 0..n, n in `ns`: every
\* index tuple, the last range varying fastest.
RECURSIVE multi_cartesian_product(_)
multi_cartesian_product(ns) ==
    IF ns = <<>> THEN << <<>> >>
    ELSE range_rows(0, Head(ns), multi_cartesian_product(Tail(ns)))

FromFnFirstOnly(outer_size, sizes, g) ==
    LET product == multi_cartesian_product(<<outer_size>> \o sizes)
    IN  [st |-> "alive",
         inner |-> [k \in 1..Len(product) |-> Gen(g, Head(product[k]), <<>>)],
         offsets |-> compute_offsets(sizes),
         refs |-> <<>>]

from_fn(outer_size, sizes, g) ==
    LET product == multi_cartesian_product(<<outer_size>> \o sizes)
    IN  [st |-> "alive",
         inner |-> [k \in 1..Len(product) |->
                      Gen(g, Head(product[k]), Tail(product[k]))],
         offsets |-> compute_offsets(sizes),
         refs |-> <<>>]

default(outer_size, sizes) == from_fn(outer_size, sizes, "default")

Absent == [st |-> "absent", inner |-> <<>>, offsets |-> <<>>, refs |-> <<>>]
NoArgs == [outer_size |-> 0, sizes |-> <<>>, gen |-> "default", writes |-> 0]

\* ------------------------------------------------------------ the "world"
\* What an operation of the sequential API reads and changes.
World == [mv |-> mv, heap |-> heap, freed |-> freed]

Ok(w, val) == [w |-> w, ok |-> TRUE, val |-> val]
Panic(w) == [w |-> w, ok |-> FALSE, val |-> 0]

\* Box::into_raw(Box::new(view)): a fresh allocation holding `view`
box_new(w, view) ==
    [w EXCEPT !.heap = Append(@, view), !.freed = Append(@, 0)]

\* Refs::add
add(w, c, p) == [w EXCEPT !.mv[c].refs = Append(@, p)]

root_view(w, c) ==
    [start |-> 0, len |-> Len(w.mv[c].inner), offsets |-> 0, refs |-> c,
     path |-> <<>>]

\* Deref::deref and DerefMut::deref_mut of MultiVec
deref(w, c) ==
    LET p == Len(w.heap) + 1
    IN  Ok(add(box_new(w, root_view(w, c)), c, p), p)

deref_mut(w, c) == deref(w, c)

\* the offsets a view points at, and the view's N
view_offsets(w, v) ==
    SubSeq(w.mv[v.refs].offsets, v.offsets + 1, Len(w.mv[v.refs].offsets))

view_n(w, v) == Len(view_offsets(w, v))

\* MultiVecRef::size
size(w, v) ==
    LET offs == view_offsets(w, v)
    IN  IF offs = <<>> THEN Ok(w, v.len \div 1)
        ELSE IF Head(offs) = 0 THEN Panic(w)
        ELSE Ok(w, v.len \div Head(offs))

\* NonEmptyArrayExt::arr_split_first on the offsets a view points at
arr_split_first(w, v) ==
    [first |-> Head(view_offsets(w, v)), rest |-> v.offsets + 1]

\* &slice[lo..hi] of a slice of length len: Rust panics unless lo <= hi <= len
range_ok(len, lo, hi) == lo <= hi /\ hi <= len

\* the MultiVecRef that index builds from the view v: the sub-slice
\* &self.slice()[index * offset..(index + 1) * offset] with the offsets after
\* the first and the same refs; the slicing panics when out of range
sub_view(w, v, i) ==
    LET sp == arr_split_first(w, v)
        offset == sp.first
    IN  [ok |-> range_ok(v.len, i * offset, (i + 1) * offset),
         view |-> [start |-> v.start + i * offset,
                   len |-> (i + 1) * offset - i * offset,
                   offsets |-> sp.rest, refs |-> v.refs,
                   path |-> Append(v.path, i)]]

IndexNoNarrow(w, p, i) ==
    LET v == w.heap[p]
        sp == arr_split_first(w, v)
        q == Len(w.heap) + 1
        sub == [start |-> v.start, len |-> v.len,
                offsets |-> sp.rest, refs |-> v.refs, path |-> Append(v.path, i)]
    IN  IF range_ok(v.len, i * sp.first, (i + 1) * sp.first)
        THEN Ok(add(box_new(w, sub), v.refs, q), q)
        ELSE Panic(w)

\* Index<usize>::index of MultiVecRef<$n, T>, $n >= 1
index(w, p, i) ==
    LET v == w.heap[p]
        s == sub_view(w, v, i)
        q == Len(w.heap) + 1
    IN  IF s.ok THEN Ok(add(box_new(w, s.view), v.refs, q), q) ELSE Panic(w)

IndexMutRowZero(w, p, i) ==
    LET v == w.heap[p]
        sp == arr_split_first(w, v)
        q == Len(w.heap) + 1
        sub == [start |-> v.start, len |-> sp.first,
                offsets |-> sp.rest, refs |-> v.refs, path |-> Append(v.path, i)]
    IN  IF range_ok(v.len, i * sp.first, (i + 1) * sp.first)
        THEN Ok(add(box_new(w, sub), v.refs, q), q)
        ELSE Panic(w)

\* IndexMut<usize>::index_mut of MultiVecRef<$n, T>, $n >= 1
index_mut(w, p, i) ==
    LET self == w.heap[p]
        sp == arr_split_first(w, self)
        offset == sp.first
        q == Len(w.heap) + 1
        sub == [start |-> self.start + i * offset,
                len |-> (i + 1) * offset - i * offset,
                offsets |-> sp.rest, refs |-> self.refs,
                path |-> Append(self.path, i)]
    IN  IF range_ok(self.len, i * offset, (i + 1) * offset)
        THEN Ok(add(box_new(w, sub), self.refs, q), q)
        ELSE Panic(w)

\* Index<usize>::index of MultiVecRef<0, T>: &self.slice()[index]
index0(w, p, i) ==
    LET v == w.heap[p]
    IN  IF i < v.len THEN Ok(w, w.mv[v.refs].inner[v.start + i + 1])
        ELSE Panic(w)

IndexMut0IgnoresStart(w, p, i, val) ==
    LET v == w.heap[p]
    IN  IF i < v.len
        THEN Ok([w EXCEPT !.mv[v.refs].inner[i + 1] = val], val)
        ELSE Panic(w)

\* `view[i] = val` through IndexMut<usize>::index_mut of MultiVecRef<0, T>
index_mut0(w, p, i, val) ==
    LET v == w.heap[p]
    IN  IF i < v.len
        THEN Ok([w EXCEPT !.mv[v.refs].inner[v.start + i + 1] = val], val)
        ELSE Panic(w)

CloneSharedRefs(w, c) == w.mv[c]

\* Clone::clone of MultiVec
clone(w, c) ==
    [st |-> "alive", inner |-> w.mv[c].inner, offsets |-> w.mv[c].offsets,
     refs |-> <<>>]

\* PartialEq::eq of MultiVec
eq(x, y) == x.inner = y.inner /\ x.offsets = y.offsets

RECURSIVE free_all(_, _)
free_all(fr, ps) ==
    IF ps = <<>> THEN fr
    ELSE free_all([fr EXCEPT ![Head(ps)] = @ + 1], Tail(ps))

DropLeaksViews(w, c) ==
    [w EXCEPT !.mv[c] = [Absent EXCEPT !.st = "dropped"]]

\* Drop of MultiVec: Drop::drop of Refs frees every registered box, then the
\* fields go.
drop(w, c) ==
    [w EXCEPT !.freed = free_all(@, w.mv[c].refs),
              !.mv[c] = [Absent EXCEPT !.st = "dropped"]]

\* ------------------------------------------------------- construction inputs
RECURSIVE Prod(_)
Prod(s) == IF s = <<>> THEN 1 ELSE Head(s) * Prod(Tail(s))

\* (N, outer_size, sizes): N is the const generic, sizes is [usize; N]
Shapes ==
    {sh \in UNION {{<<n, o, s>> : o \in 0..MaxDim, s \in [1..n -> 0..MaxDim]} :
                   n \in 0..MaxN} :
        sh[2] * Prod(sh[3]) <= MaxCells}

ArgsOf(sh, g) == [outer_size |-> sh[2], sizes |-> sh[3], gen |-> g, writes |-> 0]

\* the last call and what it returned: Ok(val), or a panic
Last(op, r) == [op |-> op, ok |-> r.ok, val |-> r.val]

ThreadsIdle ==
    /\ pc = [t \in Threads |-> "idle"]
    /\ ptr = [t \in Threads |-> 0]
    /\ cur = [t \in Threads |-> 0]
    /\ tmp = [t \in Threads |-> <<>>]
    /\ mutex = 0

InitFromFn ==
    \E sh \in Shapes, g \in Gens :
        /\ mv = [c \in Ids |-> IF c = "a" THEN from_fn(sh[2], sh[3], g) ELSE Absent]
        /\ args = [c \in Ids |-> IF c = "a" THEN ArgsOf(sh, g) ELSE NoArgs]
        /\ last = Last("from_fn", [ok |-> TRUE, val |-> 0])

InitDefault ==
    \E sh \in Shapes :
        /\ mv = [c \in Ids |-> IF c = "a" THEN default(sh[2], sh[3]) ELSE Absent]
        /\ args = [c \in Ids |-> IF c = "a" THEN ArgsOf(sh, "default") ELSE NoArgs]
        /\ last = Last("default", [ok |-> TRUE, val |-> 0])

Init ==
    /\ InitFromFn \/ InitDefault
    /\ heap = <<>>
    /\ freed = <<>>
    /\ written = {}
    /\ ThreadsIdle

\* ------------------------------------------------ whole indexing expressions
\* view[i_1][i_2]...[i_k] on the boxed view p, each step a view of one
\* dimension less; a panic ends the expression
RECURSIVE index_chain(_, _, _)
index_chain(w, p, idxs) ==
    IF idxs = <<>> THEN Ok(w, p)
    ELSE LET r == index(w, p, Head(idxs))
         IN  IF r.ok THEN index_chain(r.w, r.val, Tail(idxs)) ELSE Panic(r.w)

RECURSIVE index_mut_chain(_, _, _)
index_mut_chain(w, p, idxs) ==
    IF idxs = <<>> THEN Ok(w, p)
    ELSE LET r == index_mut(w, p, Head(idxs))
         IN  IF r.ok THEN index_mut_chain(r.w, r.val, Tail(idxs)) ELSE Panic(r.w)

Front(s) == SubSeq(s, 1, Len(s) - 1)

\* the expression m[o][i_0]...[i_{N-1}] on the MultiVec c (test_from_fn_1/2)
read(w, c, coords) ==
    LET d == deref(w, c)
        ch == index_chain(d.w, d.val, Front(coords))
    IN  IF ch.ok THEN index0(ch.w, ch.val, coords[Len(coords)]) ELSE Panic(ch.w)

\* the statement m[o][i_0]...[i_{N-1}] = val on the MultiVec c (test_from_fn_2)
assign(w, c, coords, val) ==
    LET d == deref_mut(w, c)
        ch == index_mut_chain(d.w, d.val, Front(coords))
    IN  IF ch.ok THEN index_mut0(ch.w, ch.val, coords[Len(coords)], val)
        ELSE Panic(ch.w)

\* --------------------------------------------------- what the claims speak of
WorldNext == [mv |-> mv', heap |-> heap', freed |-> freed']

\* the in-range coordinate tuples (o, i_0, ..., i_{N-1}) of a construction
Coords(a) ==
    {x \in [1..(Len(a.sizes) + 1) -> 0..MaxDim] :
        /\ x[1] < a.outer_size
        /\ \A j \in 1..Len(a.sizes) : x[j + 1] < a.sizes[j]}

\* the declared extent of the dimension a view indexes next: outer_size for
\* the whole-container view, sizes[k-1] after k index steps
Extent(v) ==
    IF v.offsets = 0 THEN args[v.refs].outer_size
    ELSE args[v.refs].sizes[v.offsets]

Count(x, s) == Cardinality({k \in DOMAIN s : s[k] = x})

IsPrefix(s, t) == Len(s) <= Len(t) /\ SubSeq(t, 1, Len(s)) = s

\* ------------------------------------------------------------------ actions
Apply(w) ==
    /\ mv' = w.mv
    /\ heap' = w.heap
    /\ freed' = w.freed

Alive(c) == mv[c].st = "alive"

\* the boxed views a caller can still use: those of a MultiVec not yet dropped
Views == {p \in DOMAIN heap : Alive(heap[p].refs)}

Deref(c) ==
    /\ Alive(c)
    /\ Len(heap) < MaxViews
    /\ LET r == deref(World, c)
       IN  Apply(r.w) /\ last' = Last("deref", r)
    /\ UNCHANGED <<args, written, thrVars>>

DerefMut(c) ==
    /\ Alive(c)
    /\ Len(heap) < MaxViews
    /\ LET r == deref_mut(World, c)
       IN  Apply(r.w) /\ last' = Last("deref_mut", r)
    /\ UNCHANGED <<args, written, thrVars>>

Index(p, i) ==
    /\ p \in Views
    /\ view_n(World, heap[p]) > 0
    /\ LET r == index(World, p, i)
       IN  /\ r.ok => Len(heap) < MaxViews
           /\ Apply(r.w)
           /\ last' = Last("index", r)
    /\ UNCHANGED <<args, written, thrVars>>

IndexMut(p, i) ==
    /\ p \in Views
    /\ view_n(World, heap[p]) > 0
    /\ LET r == index_mut(World, p, i)
       IN  /\ r.ok => Len(heap) < MaxViews
           /\ Apply(r.w)
           /\ last' = Last("index_mut", r)
    /\ UNCHANGED <<args, written, thrVars>>

Index0(p, i) ==
    /\ p \in Views
    /\ view_n(World, heap[p]) = 0
    /\ LET r == index0(World, p, i)
       IN  Apply(r.w) /\ last' = Last("index0", r)
    /\ UNCHANGED <<args, written, thrVars>>

IndexMut0(p, i, val) ==
    /\ p \in Views
    /\ view_n(World, heap[p]) = 0
    /\ args[heap[p].refs].writes < MaxWrites
    /\ LET r == index_mut0(World, p, i, val)
       IN  /\ Apply(r.w)
           /\ last' = Last("index_mut0", r)
           /\ args' = [args EXCEPT ![heap[p].refs].writes =
                          IF r.ok THEN @ + 1 ELSE @]
    /\ UNCHANGED <<written, thrVars>>

Size(p) ==
    /\ p \in Views
    /\ LET r == size(World, heap[p])
       IN  Apply(r.w) /\ last' = Last("size", r)
    /\ UNCHANGED <<args, written, thrVars>>

Clone(c, d) ==
    /\ Alive(c)
    /\ mv[d].st = "absent"
    /\ mv' = [mv EXCEPT ![d] = clone(World, c)]
    /\ args' = [args EXCEPT ![d] = args[c]]
    /\ last' = Last("clone", [ok |-> TRUE, val |-> 0])
    /\ UNCHANGED <<heap, freed, written, thrVars>>

Eq(c, d) ==
    /\ Alive(c)
    /\ Alive(d)
    /\ c # d
    /\ last' = Last("eq", [ok |-> TRUE, val |-> IF eq(mv[c], mv[d]) THEN 1 ELSE 0])
    /\ UNCHANGED <<mv, args, heap, freed, written, thrVars>>

Drop(c) ==
    /\ Alive(c)
    /\ Apply(drop(World, c))
    /\ last' = Last("drop", [ok |-> TRUE, val |-> 0])
    /\ UNCHANGED <<args, written, thrVars>>

\* One MultiVec, "a", and the views taken from it.
Next ==
    \/ \E c \in Ids : Deref(c)
    \/ \E c \in Ids : DerefMut(c)
    \/ \E p \in DOMAIN heap, i \in 0..MaxDim : Index(p, i)
    \/ \E p \in DOMAIN heap, i \in 0..MaxDim : IndexMut(p, i)
    \/ \E p \in DOMAIN heap, i \in 0..MaxDim : Index0(p, i)
    \/ \E p \in DOMAIN heap, i \in 0..MaxDim, val \in WriteVals : IndexMut0(p, i, val)
    \/ \E p \in DOMAIN heap : Size(p)
    \/ \E c \in Ids : Drop(c)

Spec == Init /\ [][Next]_vars

\* A MultiVec and its clone: the calls that produce views, write, compare
\* and drop, on either of the two.
NextClone ==
    \/ \E c, d \in Ids : Clone(c, d)
    \/ \E c, d \in Ids : Eq(c, d)
    \/ \E c \in Ids : Deref(c)
    \/ \E c \in Ids : DerefMut(c)
    \/ \E p \in DOMAIN heap, i \in 0..MaxDim : Index(p, i)
    \/ \E p \in DOMAIN heap, i \in 0..MaxDim : IndexMut(p, i)
    \/ \E p \in DOMAIN heap, i \in 0..MaxDim, val \in WriteVals : IndexMut0(p, i, val)
    \/ \E c \in Ids : Drop(c)

SpecClone == Init /\ [][NextClone]_vars

\* ------------------------------------- populating a default-built container
\* test_from_fn_2: m1 = from_fn(outer_size, sizes, f) is "a", m2 =
\* default(outer_size, sizes) is "b"; m2 is then assigned f at every
\* coordinate tuple, here in any order, and compared with m1.
InitPopulate ==
    /\ \E sh \in Shapes, g \in Gens :
        /\ mv = [c \in Ids |-> IF c = "a" THEN from_fn(sh[2], sh[3], g)
                               ELSE default(sh[2], sh[3])]
        /\ args = [c \in Ids |-> IF c = "a" THEN ArgsOf(sh, g)
                                 ELSE ArgsOf(sh, "default")]
    /\ last = Last("default", [ok |-> TRUE, val |-> 0])
    /\ heap = <<>>
    /\ freed = <<>>
    /\ written = {}
    /\ ThreadsIdle

PopulateAssign(x) ==
    /\ x \in Coords(args["a"]) \ written
    /\ LET r == assign(World, "b", x, Gen(args["a"].gen, Head(x), Tail(x)))
       IN  /\ Apply(r.w)
           /\ last' = Last("assign", r)
    /\ written' = written \cup {x}
    /\ args' = [args EXCEPT !["b"].writes = @ + 1]
    /\ UNCHANGED thrVars

PopulateEq ==
    /\ last.op # "eq"
    /\ last' = Last("eq", [ok |-> TRUE,
                           val |-> IF eq(mv["a"], mv["b"]) THEN 1 ELSE 0])
    /\ UNCHANGED <<mv, args, heap, freed, written, thrVars>>

NextPopulate ==
    \/ \E x \in [1..(Len(args["a"].sizes) + 1) -> 0..MaxDim] : PopulateAssign(x)
    \/ PopulateEq

SpecPopulate == InitPopulate /\ [][NextPopulate]_vars

\* ------------------------------------------ threads sharing one &MultiVec
\* Each thread makes view-producing calls on the shared MultiVec "a": deref,
\* then index on the view it got last.  A call boxes its view, then runs
\* Refs::add: lock the Mutex, push (read the Vec, write it back one longer),
\* unlock as the guard goes out of scope.
InitShared ==
    /\ InitFromFn
    /\ heap = <<>>
    /\ freed = <<>>
    /\ written = {}
    /\ ThreadsIdle

LockAlways(m) == TRUE

\* Mutex::lock succeeds when nobody holds the Mutex
can_lock(m) == m = 0

ThreadDeref(t) ==
    /\ pc[t] = "idle"
    /\ Len(heap) < MaxViews
    /\ Apply(box_new(World, root_view(World, "a")))
    /\ ptr' = [ptr EXCEPT ![t] = Len(heap) + 1]
    /\ pc' = [pc EXCEPT ![t] = "boxed"]
    /\ UNCHANGED <<args, last, written, cur, tmp, mutex>>

ThreadIndex(t, i) ==
    /\ pc[t] = "idle"
    /\ cur[t] # 0
    /\ view_n(World, heap[cur[t]]) > 0
    /\ LET s == sub_view(World, heap[cur[t]], i)
       IN  IF s.ok
           THEN /\ Len(heap) < MaxViews
                /\ Apply(box_new(World, s.view))
                /\ ptr' = [ptr EXCEPT ![t] = Len(heap) + 1]
                /\ pc' = [pc EXCEPT ![t] = "boxed"]
           ELSE /\ pc' = [pc EXCEPT ![t] = "panicked"]
                /\ UNCHANGED <<mv, heap, freed, ptr>>
    /\ UNCHANGED <<args, last, written, cur, tmp, mutex>>

ThreadLock(t) ==
    /\ pc[t] = "boxed"
    /\ can_lock(mutex)
    /\ mutex' = t
    /\ pc' = [pc EXCEPT ![t] = "locked"]
    /\ UNCHANGED <<mv, args, heap, freed, last, written, ptr, cur, tmp>>

ThreadPushRead(t) ==
    /\ pc[t] = "locked"
    /\ tmp' = [tmp EXCEPT ![t] = mv["a"].refs]
    /\ pc' = [pc EXCEPT ![t] = "read"]
    /\ UNCHANGED <<mv, args, heap, freed, last, written, ptr, cur, mutex>>

ThreadPushWrite(t) ==
    /\ pc[t] = "read"
    /\ mv' = [mv EXCEPT !["a"].refs = Append(tmp[t], ptr[t])]
    /\ tmp' = [tmp EXCEPT ![t] = <<>>]
    /\ pc' = [pc EXCEPT ![t] = "pushed"]
    /\ UNCHANGED <<args, heap, freed, last, written, ptr, cur, mutex>>

ThreadUnlock(t) ==
    /\ pc[t] = "pushed"
    /\ mutex' = IF mutex = t THEN 0 ELSE mutex
    /\ cur' = [cur EXCEPT ![t] = ptr[t]]
    /\ ptr' = [ptr EXCEPT ![t] = 0]
    /\ pc' = [pc EXCEPT ![t] = "idle"]
    /\ UNCHANGED <<mv, args, heap, freed, last, written, tmp>>

NextShared ==
    \/ \E t \in Threads : ThreadDeref(t)
    \/ \E t \in Threads, i \in 0..MaxDim : ThreadIndex(t, i)
    \/ \E t \in Threads : ThreadLock(t)
    \/ \E t \in Threads : ThreadPushRead(t)
    \/ \E t \in Threads : ThreadPushWrite(t)
    \/ \E t \in Threads : ThreadUnlock(t)

SpecShared == InitShared /\ [][NextShared]_vars

\* ------------------------------------------------------------------ claims

\* C1 (round-trip addressing): in a container built by from_fn(outer_size,
\* sizes, f) and not written since, every view with no dimension left that an
\* index chain o, i_0, ..., i_{N-2} has produced yields, indexed by an
\* in-range i_{N-1}, exactly f(o, [i_0, ..., i_{N-1}]); and so does the whole
\* expression m[o][i_0]...[i_{N-1}] at every in-range coordinate tuple.
C1_RoundTrip ==
    /\ \A p \in Views :
        LET v == heap[p]
            a == args[v.refs]
        IN  (view_n(World, v) = 0 /\ a.writes = 0) =>
                \A i \in 0..MaxDim :
                    Append(v.path, i) \in Coords(a) =>
                        LET r == index0(World, p, i)
                        IN  r.ok /\ r.val = Gen(a.gen, Head(Append(v.path, i)),
                                                Tail(Append(v.path, i)))
    /\ \A c \in Ids :
        (Alive(c) /\ args[c].writes = 0) =>
            \A x \in Coords(args[c]) :
                LET r == read(World, c, x)
                IN  r.ok /\ r.val = Gen(args[c].gen, Head(x), Tail(x))

C1_Witness ==
    /\ last.op = "index0"
    /\ last.ok
    /\ \E p \in Views :
        /\ view_n(World, heap[p]) = 0
        /\ args[heap[p].refs].gen = "coord"
        /\ args[heap[p].refs].writes = 0
        /\ Len(heap[p].path) = 2
        /\ heap[p].path[1] = 1
        /\ \E i \in 1..MaxDim :
            /\ Append(heap[p].path, i) \in Coords(args[heap[p].refs])
            /\ last.val = Digits(0, Append(heap[p].path, i))

\* C2 (size consistency), as claimed: size() of every view, zero extents
\* included, returns the declared extent of its level: outer_size on the
\* whole-container view, sizes[k-1] after k index steps.
C2_SizeIsExtent ==
    \A p \in Views :
        LET r == size(World, heap[p])
        IN  r.ok /\ r.val = Extent(heap[p])

\* C3 (bounds violation), as claimed: at every level, read or mutable,
\* index(i) with i at or past the declared extent of that level panics.
C3_OutOfRangePanics ==
    \A p \in Views : \A i \in 0..MaxDim :
        i >= Extent(heap[p]) =>
            IF view_n(World, heap[p]) > 0
            THEN ~index(World, p, i).ok /\ ~index_mut(World, p, i).ok
            ELSE ~index0(World, p, i).ok /\ ~index_mut0(World, p, i, 0).ok

\* C4 (write-then-read): a step that assigns val through a view with no
\* dimension left, at an in-range coordinate tuple, leaves a container in
\* which reading that tuple returns val, every other in-range tuple reads
\* what it read before, and offsets and the length of inner are what they were.
C4_WriteStep(p, i, val) ==
    LET c == heap[p].refs
        x == Append(heap[p].path, i)
    IN  (IndexMut0(p, i, val) /\ last'.ok /\ x \in Coords(args[c])) =>
            /\ read(WorldNext, c, x).ok
            /\ read(WorldNext, c, x).val = val
            /\ \A y \in Coords(args[c]) \ {x} :
                /\ read(WorldNext, c, y).ok
                /\ read(WorldNext, c, y).val = read(World, c, y).val
            /\ mv'[c].offsets = mv[c].offsets
            /\ Len(mv'[c].inner) = Len(mv[c].inner)

\* C4: every step of the program satisfies the write-then-read condition above.
C4_WriteThenRead ==
    [][\A p \in DOMAIN heap : \A i \in 0..MaxDim : \A val \in WriteVals :
          C4_WriteStep(p, i, val)]_vars

C4_Witness ==
    /\ last.op = "index_mut0"
    /\ last.ok
    /\ last.val = 77
    /\ \E c \in Ids :
        /\ Alive(c)
        /\ args[c].writes > 0
        /\ Len(args[c].sizes) >= 1
        /\ Len(mv[c].inner) >= 2
        /\ mv[c].inner[2] = 77

\* C6 (registry lifecycle): every boxed view is registered exactly once in
\* the registry of the MultiVec it came from and in no other, is not
\* reclaimed while that MultiVec is alive, and has been reclaimed exactly
\* once after that MultiVec is dropped; while a MultiVec is alive its
\* registry only grows.
C6_Registered ==
    \A p \in DOMAIN heap :
        LET c == heap[p].refs
        IN  /\ \A d \in Ids \ {c} : Count(p, mv[d].refs) = 0
            /\ Alive(c) => Count(p, mv[c].refs) = 1 /\ freed[p] = 0
            /\ mv[c].st = "dropped" => freed[p] = 1
            /\ mv[c].st # "absent"

C6_Grows ==
    \A c \in Ids :
        (Alive(c) /\ mv'[c].st = "alive") => IsPrefix(mv[c].refs, mv'[c].refs)

\* C6: the registration condition holds in every state and every step only
\* extends the registry of a MultiVec that stays alive.
C6_RegistryLifecycle == []C6_Registered /\ [][C6_Grows]_vars

C6_Witness ==
    /\ last.op = "drop"
    /\ \E c \in Ids :
        /\ mv[c].st = "dropped"
        /\ \E p, q \in DOMAIN heap :
            /\ p # q
            /\ heap[p].refs = c /\ heap[q].refs = c
            /\ heap[p].offsets = 0 /\ heap[q].offsets = 1
            /\ freed[p] = 1 /\ freed[q] = 1

\* C8 (clone independence): a clone step yields a MultiVec with the
\* source's inner and offsets, equal to the source under eq whatever views
\* the source has produced, and with an empty registry; afterwards a call on
\* one MultiVec leaves the other's inner, offsets and registry as they were,
\* and dropping one reclaims all of its own boxed views and none of the other's.
C8_CloneStep(c, d) ==
    Clone(c, d) =>
        /\ eq(mv'[c], mv'[d])
        /\ mv'[d].inner = mv[c].inner
        /\ mv'[d].offsets = mv[c].offsets
        /\ mv'[d].refs = <<>>
        /\ mv'[c] = mv[c]

C8_OnOne(c) ==
    \/ Deref(c)
    \/ DerefMut(c)
    \/ Drop(c)
    \/ \E p \in DOMAIN heap :
        /\ heap[p].refs = c
        /\ \/ \E i \in 0..MaxDim : Index(p, i) \/ IndexMut(p, i)
           \/ \E i \in 0..MaxDim, val \in WriteVals : IndexMut0(p, i, val)

C8_Independent(c, d) ==
    (c # d /\ Alive(c) /\ Alive(d) /\ C8_OnOne(c)) =>
        /\ mv'[d] = mv[d]
        /\ \A p \in DOMAIN heap :
            /\ heap[p].refs = d => freed'[p] = freed[p] /\ heap'[p] = heap[p]
            /\ (heap[p].refs = c /\ Drop(c)) => freed'[p] = 1
        /\ \A p \in DOMAIN heap' \ DOMAIN heap :
            heap'[p].refs = c /\ Count(p, mv'[c].refs) = 1

\* C8: every step satisfies the clone condition and the independence condition.
C8_CloneIndependence ==
    [][\A c, d \in Ids : C8_CloneStep(c, d) /\ C8_Independent(c, d)]_vars

C8_Witness ==
    /\ last.op = "drop"
    /\ mv["a"].st = "dropped"
    /\ Alive("b")
    /\ args["b"].writes > 0
    /\ mv["b"].refs # <<>>
    /\ \E p, q \in DOMAIN heap :
        /\ heap[p].refs = "a" /\ freed[p] = 1
        /\ heap[q].refs = "b" /\ freed[q] = 0

\* C9 (stride correctness): in every MultiVec, after any calls, offsets has
\* one entry per declared size, offsets[N-1] = sizes[N-1], offsets[i] =
\* sizes[i] * offsets[i+1] below that, and inner holds outer_size times the
\* product of the sizes elements.
C9_Strides ==
    \A c \in Ids :
        Alive(c) =>
            LET offs == mv[c].offsets
                sizes == args[c].sizes
                n == Len(sizes)
            IN  /\ Len(offs) = n
                /\ n > 0 => offs[n] = sizes[n]
                /\ \A i \in 1..(n - 1) : offs[i] = sizes[i] * offs[i + 1]
                /\ Len(mv[c].inner) = args[c].outer_size * Prod(sizes)

C9_Witness ==
    \E c \in Ids :
        /\ Alive(c)
        /\ args[c].sizes = <<2, 1>>
        /\ mv[c].offsets = <<2, 1>>
        /\ args[c].outer_size = 2
        /\ args[c].writes > 0
        /\ Len(mv[c].refs) >= 3

\* C10 (view invariant), as claimed: every view with no dimension left
\* addresses exactly one element of storage; every view with dimensions
\* left has a span whose length is a multiple of its first offset and can be
\* indexed by every value below span length / first offset.
C10_Spans(p) ==
    LET v == heap[p]
        offs == view_offsets(World, v)
    IN  /\ v.start + v.len <= Len(mv[v.refs].inner)
        /\ offs # <<>> =>
            /\ \E q \in 0..v.len : v.len = q * Head(offs)
            /\ Head(offs) > 0 =>
                \A i \in 0..MaxDim :
                    i < v.len \div Head(offs) =>
                        index(World, p, i).ok /\ index_mut(World, p, i).ok

\* C10 as claimed: the spans are as stated and a view with no dimension left
\* has a span of exactly one element.
C10_OneElementViews ==
    \A p \in Views :
        /\ C10_Spans(p)
        /\ view_n(World, heap[p]) = 0 => heap[p].len = 1

\* C10, amended: a view with no dimension left addresses a span of as many
\* elements as the last declared extent (outer_size when N = 0), and
\* index(i) on it reaches one element of storage for each i below that;
\* the rest as claimed, the quotient taken where the first offset is not 0.
C10_ViewInvariant ==
    \A p \in Views :
        /\ C10_Spans(p)
        /\ view_n(World, heap[p]) = 0 =>
            /\ heap[p].len = Extent(heap[p])
            /\ \A i \in 0..MaxDim :
                i < heap[p].len =>
                    /\ index0(World, p, i).ok
                    /\ heap[p].start + i + 1 \in DOMAIN mv[heap[p].refs].inner

C10_Witness ==
    /\ last.op = "index"
    /\ \E p, q \in Views :
        /\ view_n(World, heap[p]) = 0
        /\ heap[p].len = 2
        /\ view_n(World, heap[q]) = 1
        /\ heap[q].len = 2
        /\ heap[p].refs = heap[q].refs

\* C5 (construction equivalence): once a container built by default(outer_size,
\* sizes) has been assigned f(o, [i_0..i_{N-1}]) at every in-range coordinate
\* tuple, in whatever order, it is equal under eq to the container built by
\* from_fn(outer_size, sizes, f).
C5_ConstructionEquivalence ==
    written = Coords(args["a"]) => eq(mv["a"], mv["b"])

C5_Witness ==
    /\ last.op = "eq"
    /\ last.val = 1
    /\ written = Coords(args["a"])
    /\ Cardinality(written) = 4
    /\ Len(args["a"].sizes) = 2
    /\ args["a"].gen = "coord"

\* C7 (concurrent view production): with threads sharing the container
\* read-only, at most one thread is inside the registry's push at a time,
\* every boxed view whose call has pushed it is in the registry exactly
\* once and no other is, so that with k calls finished and none under way
\* the registry holds exactly k distinct addresses; inner and offsets stay
\* what from_fn built.
InPush(t) == pc[t] \in {"locked", "read", "pushed"}

NotYetPushed == {ptr[t] : t \in {u \in Threads : pc[u] \in {"boxed", "locked", "read"}}}

C7_ConcurrentViews ==
    /\ Cardinality({t \in Threads : InPush(t)}) <= 1
    /\ \A t \in Threads : InPush(t) => mutex = t
    /\ \A p \in DOMAIN heap :
        Count(p, mv["a"].refs) = IF p \in NotYetPushed THEN 0 ELSE 1
    /\ Len(mv["a"].refs) = Len(heap) - Cardinality(NotYetPushed)
    /\ mv["a"].inner = from_fn(args["a"].outer_size, args["a"].sizes,
                               args["a"].gen).inner
    /\ mv["a"].offsets = compute_offsets(args["a"].sizes)

C7_Witness ==
    /\ \A t \in Threads : pc[t] = "idle" /\ cur[t] # 0
    /\ Len(mv["a"].refs) = MaxViews
    /\ \E t \in Threads : heap[cur[t]].offsets = 1
    /\ mv["a"].refs # <<1, 2, 3>>

====
